---- MODULE Spec2Model ----
(***************************************************************************)
(* Model of isar_exr.api.graphql_client.GraphqlClient: construction,       *)
(* _initialize_client and the recursive query() with its except clauses    *)
(* and its finally block.  One client instance, used by the threads of     *)
(* Threads; under Spec only the thread Main ever calls it.                 *)
(***************************************************************************)
EXTENDS Integers, Sequences, FiniteSets, TLC

\* ------------------------------------------------------------------ bounds
MaxCalls == 2       \* top-level query calls made on the client
MaxDepth == 4       \* frames of query() a thread may have on its stack
MaxReports == 3     \* report summaries in a mission-report response
MaxTime == 3        \* distinct timestamps of the reports
MaxPois == 3        \* points of interest in an inspection-report response

Main == "main"
Threads == {Main, "worker"}

\* ------------------------------------------------------ inputs and outcomes
\* Query texts; gql() rejects the malformed one with a GraphQLError.
Queries == {"query { ok }", "query { malformed"}
Malformed(qs) == qs = "query { malformed"
Parameters == {"p1", "p2"}

\* A mapping is a set of <<key, value>> pairs; {} is the empty dict.
EmptyMapping == {}
Responses == {EmptyMapping, {<<"data", 1>>}, {<<"data", 2>>}}

Tokens == {"tokA", "tokB"}

GraphQLError == "GraphQLError"
TransportProtocolError == "TransportProtocolError"
TransportQueryError == "TransportQueryError"
TransportClosed == "TransportClosed"
TransportServerError == "TransportServerError"
UnknownException == "Exception"
TokenError == "TokenError"       \* whatever get_access_token() raises

\* What self.client.execute can raise.
ExecuteErrors ==
    {GraphQLError, TransportProtocolError, TransportQueryError,
     TransportClosed, TransportServerError, UnknownException}

\* ------------------------------------------------------------------- state
VARIABLES
    ctor,             \* "new" | "ok" | "failed": GraphqlClient() not yet run, built, raised
    reauthenticated,  \* self._reauthenticated
    client,           \* self.client: the session in use, NoClient when never assigned
    nextId,           \* sessions (Client objects) built so far
    stack,            \* per thread: the frames of query(), innermost last
    result,           \* per thread: how its last constructor/query call ended
    log,              \* per thread: records its current call gave to the logger
    trace,            \* per thread: history of its current call
    ncalls,           \* top-level query calls started
    ext,              \* the response extractor under test: its input and its output
    history           \* how each finished top-level query call went, oldest first

vars == <<ctor, reauthenticated, client, nextId, stack, result, log, trace, ncalls, ext, history>>

NoClient == [id |-> 0, url |-> "", headers |-> <<>>]
NoResult == [status |-> "none", value |-> EmptyMapping, exc |-> "none"]

\* Lines 32-36: the transport and Client built around a token.
NewSession(n, token) ==
    [id |-> n, url |-> "ROBOT_API_URL", headers |-> <<"authorization", "Bearer ", token>>]

Event(e, d, s, k, q, r) ==
    [ev |-> e, depth |-> d, session |-> s, kind |-> k, query |-> q, resp |-> r]

LogRecord(lvl, m) == [level |-> lvl, msg |-> m]

Top(t) == stack[t][Len(stack[t])]
Depth(t) == Len(stack[t])
SetTop(s, f) == [s EXCEPT ![Len(s)] = f]
Pop(s) == SubSeq(s, 1, Len(s) - 1)

Frame(qs, qp) ==
    [pc |-> "try", qs |-> qs, qp |-> qp, exc |-> "none",
     resp |-> EmptyMapping, pending |-> "none"]

ClientInit ==
    /\ ctor = "new"
    /\ reauthenticated = FALSE
    /\ client = NoClient
    /\ nextId = 0
    /\ stack = [t \in Threads |-> <<>>]
    /\ result = [t \in Threads |-> NoResult]
    /\ log = [t \in Threads |-> <<>>]
    /\ trace = [t \in Threads |-> <<>>]
    /\ ncalls = 0
    /\ history = <<>>

\* No extractor is being run.
NoExtractor ==
    [fn |-> "none", reports |-> <<>>, pois |-> <<>>, name |-> "", out |-> "",
     done |-> FALSE]

Init == ClientInit /\ ext = NoExtractor

\* ------------------------------------------------------------ construction
\* __init__ (lines 19-24) with _initialize_client (lines 26-36), run by Main.
ConstructOk(token) ==
    /\ reauthenticated' = FALSE
    /\ client' = NewSession(nextId + 1, token)
    /\ nextId' = nextId + 1
    /\ ctor' = "ok"
    /\ trace' = [trace EXCEPT ![Main] =
                    <<Event("token", 0, 0, "ok", <<>>, EmptyMapping),
                      Event("rebuild", 0, nextId + 1, "ok", <<>>, EmptyMapping)>>]
    /\ UNCHANGED <<stack, result, log, ncalls, ext, history>>

\* ConstructFail with the Client assigned before the token is asked for.
ConstructFailClientFirst ==
    /\ reauthenticated' = FALSE
    /\ ctor' = "failed"
    /\ client' = NewSession(nextId + 1, "")
    /\ nextId' = nextId + 1
    /\ log' = [log EXCEPT ![Main] =
                  Append(@, LogRecord("critical", "CRITICAL - Error getting access token"))]
    /\ result' = [result EXCEPT ![Main] =
                     [status |-> "raised", value |-> EmptyMapping, exc |-> TokenError]]
    /\ trace' = [trace EXCEPT ![Main] =
                    <<Event("token", 0, 0, "fail", <<>>, EmptyMapping)>>]
    /\ UNCHANGED <<stack, ncalls, ext, history>>

\* Lines 27-31 in __init__: get_access_token() raised.
ConstructFail ==
    /\ reauthenticated' = FALSE
    /\ ctor' = "failed"
    /\ log' = [log EXCEPT ![Main] =
                  Append(@, LogRecord("critical", "CRITICAL - Error getting access token"))]
    /\ result' = [result EXCEPT ![Main] =
                     [status |-> "raised", value |-> EmptyMapping, exc |-> TokenError]]
    /\ trace' = [trace EXCEPT ![Main] =
                    <<Event("token", 0, 0, "fail", <<>>, EmptyMapping)>>]
    /\ UNCHANGED <<client, nextId, stack, ncalls, ext, history>>

Construct ==
    /\ ctor = "new"
    /\ \/ \E token \in Tokens : ConstructOk(token)
       \/ ConstructFail

\* ------------------------------------------------------------------ query()
\* A caller invokes client.query(query_string, query_parameters) (line 38).
StartQuery(t) ==
    /\ ctor = "ok"
    /\ stack[t] = <<>>
    /\ ncalls < MaxCalls
    /\ \E qs \in Queries, qp \in Parameters :
          /\ stack' = [stack EXCEPT ![t] = <<Frame(qs, qp)>>]
          /\ trace' = [trace EXCEPT ![t] =
                          <<Event("call", 1, client.id, "none", <<qs, qp>>, EmptyMapping)>>]
    /\ log' = [log EXCEPT ![t] = <<>>]
    /\ result' = [result EXCEPT ![t] = NoResult]
    /\ ncalls' = ncalls + 1
    /\ UNCHANGED <<ctor, reauthenticated, client, nextId, ext, history>>

\* Lines 50-53: gql(query_string), then self.client.execute on the current session.
AttemptOutcome(t, kind, resp) ==
    LET f == Top(t) IN
    /\ stack' = [stack EXCEPT ![t] = SetTop(@,
                    IF kind = "ok"
                    THEN [f EXCEPT !.pc = "finally", !.pending = "return", !.resp = resp]
                    ELSE [f EXCEPT !.pc = "except", !.exc = kind])]
    /\ trace' = [trace EXCEPT ![t] =
                    Append(@, Event("attempt", Depth(t), client.id, kind,
                                    <<f.qs, f.qp>>, resp))]
    /\ UNCHANGED <<ctor, reauthenticated, client, nextId, result, log, ncalls, ext, history>>

Attempt(t) ==
    /\ stack[t] # <<>>
    /\ Top(t).pc = "try"
    /\ IF Malformed(Top(t).qs)
       THEN AttemptOutcome(t, GraphQLError, EmptyMapping)
       ELSE \/ \E r \in Responses : AttemptOutcome(t, "ok", r)
            \/ \E e \in ExecuteErrors : AttemptOutcome(t, e, EmptyMapping)

\* An except clause that logs at error level and re-raises.
LogAndRaise(t, kind, msg) ==
    /\ stack[t] # <<>>
    /\ Top(t).pc = "except"
    /\ Top(t).exc = kind
    /\ log' = [log EXCEPT ![t] = Append(@, LogRecord("error", msg))]
    /\ stack' = [stack EXCEPT ![t] =
                    SetTop(@, [Top(t) EXCEPT !.pc = "finally", !.pending = "raise"])]
    /\ UNCHANGED <<ctor, reauthenticated, client, nextId, result, trace, ncalls, ext, history>>

\* Lines 54-58.
HandleGraphQLError(t) ==
    LogAndRaise(t, GraphQLError, "Something went wrong while sending the GraphQL query")

\* Lines 59-66: the flag decides between giving up and reauthenticating.
HandleProtocolError(t) ==
    IF reauthenticated
    THEN LogAndRaise(t, TransportProtocolError,
                     "Transport protocol error - Error in configuration of GraphQL client")
    ELSE /\ stack[t] # <<>>
         /\ Top(t).pc = "except"
         /\ Top(t).exc = TransportProtocolError
         /\ stack' = [stack EXCEPT ![t] = SetTop(@, [Top(t) EXCEPT !.pc = "reinit"])]
         /\ UNCHANGED <<ctor, reauthenticated, client, nextId, result, log, trace, ncalls, ext, history>>

\* Lines 70-74.
HandleQueryError(t) ==
    LogAndRaise(t, TransportQueryError, "The Energy Robotics server returned an error")

\* HandleClosed taking the reauthentication branch of the protocol-error clause.
HandleClosedReauth(t) ==
    /\ stack[t] # <<>>
    /\ Top(t).pc = "except"
    /\ Top(t).exc = TransportClosed
    /\ stack' = [stack EXCEPT ![t] = SetTop(@, [Top(t) EXCEPT !.pc = "reinit"])]
    /\ UNCHANGED <<ctor, reauthenticated, client, nextId, result, log, trace, ncalls, ext, history>>

\* Lines 75-77.
HandleClosed(t) ==
    LogAndRaise(t, TransportClosed, "The connection to the GraphQL endpoint is closed")

\* Lines 78-80.
HandleServerError(t) ==
    LogAndRaise(t, TransportServerError, "Error in Energy Robotics server")

\* HandleUnknown re-raising without the logger call of line 82.
HandleUnknownSilent(t) ==
    /\ stack[t] # <<>>
    /\ Top(t).pc = "except"
    /\ Top(t).exc = UnknownException
    /\ stack' = [stack EXCEPT ![t] =
                    SetTop(@, [Top(t) EXCEPT !.pc = "finally", !.pending = "raise"])]
    /\ UNCHANGED <<ctor, reauthenticated, client, nextId, result, log, trace, ncalls, ext, history>>

\* Lines 81-83.
HandleUnknown(t) ==
    LogAndRaise(t, UnknownException, "Unknown error in GraphQL client")

\* ReinitOk building the new Client without assigning it to self.client.
ReinitOkKeepsClient(t, token) ==
    /\ nextId' = nextId + 1
    /\ stack' = [stack EXCEPT ![t] = SetTop(@, [Top(t) EXCEPT !.pc = "setflag"])]
    /\ trace' = [trace EXCEPT ![t] =
                    @ \o <<Event("token", Depth(t), client.id, "ok", <<>>, EmptyMapping),
                           Event("rebuild", Depth(t), nextId + 1, "ok", <<>>, EmptyMapping)>>]
    /\ UNCHANGED <<ctor, reauthenticated, client, result, log, ncalls, ext, history>>

\* Line 67: self._initialize_client() inside the protocol-error handler.
ReinitOk(t, token) ==
    /\ client' = NewSession(nextId + 1, token)
    /\ nextId' = nextId + 1
    /\ stack' = [stack EXCEPT ![t] = SetTop(@, [Top(t) EXCEPT !.pc = "setflag"])]
    /\ trace' = [trace EXCEPT ![t] =
                    @ \o <<Event("token", Depth(t), client.id, "ok", <<>>, EmptyMapping),
                           Event("rebuild", Depth(t), nextId + 1, "ok", <<>>, EmptyMapping)>>]
    /\ UNCHANGED <<ctor, reauthenticated, result, log, ncalls, ext, history>>

\* ReinitFail with the token exception caught and not re-raised (line 31 missing).
ReinitFailSwallowed(t) ==
    /\ log' = [log EXCEPT ![t] =
                  Append(@, LogRecord("critical", "CRITICAL - Error getting access token"))]
    /\ stack' = [stack EXCEPT ![t] = SetTop(@, [Top(t) EXCEPT !.pc = "setflag"])]
    /\ trace' = [trace EXCEPT ![t] =
                    Append(@, Event("token", Depth(t), client.id, "fail", <<>>, EmptyMapping))]
    /\ UNCHANGED <<ctor, reauthenticated, client, nextId, result, ncalls, ext, history>>

\* Lines 27-31 reached from line 67: get_access_token() raised.
ReinitFail(t) ==
    /\ log' = [log EXCEPT ![t] =
                  Append(@, LogRecord("critical", "CRITICAL - Error getting access token"))]
    /\ stack' = [stack EXCEPT ![t] =
                    SetTop(@, [Top(t) EXCEPT !.pc = "finally", !.pending = "raise",
                                             !.exc = TokenError])]
    /\ trace' = [trace EXCEPT ![t] =
                    Append(@, Event("token", Depth(t), client.id, "fail", <<>>, EmptyMapping))]
    /\ UNCHANGED <<ctor, reauthenticated, client, nextId, result, ncalls, ext, history>>

Reinitialize(t) ==
    /\ stack[t] # <<>>
    /\ Top(t).pc = "reinit"
    /\ \/ \E token \in Tokens : ReinitOk(t, token)
       \/ ReinitFail(t)

\* SetFlag with line 68 forgotten.
SetFlagForgotten(t) ==
    /\ stack[t] # <<>>
    /\ Top(t).pc = "setflag"
    /\ stack' = [stack EXCEPT ![t] = SetTop(@, [Top(t) EXCEPT !.pc = "retry"])]
    /\ trace' = [trace EXCEPT ![t] =
                    Append(@, Event("setflag", Depth(t), client.id, "none", <<>>, EmptyMapping))]
    /\ UNCHANGED <<ctor, reauthenticated, client, nextId, result, log, ncalls, ext, history>>

\* Line 68: self._reauthenticated = True.
SetFlag(t) ==
    /\ stack[t] # <<>>
    /\ Top(t).pc = "setflag"
    /\ reauthenticated' = TRUE
    /\ stack' = [stack EXCEPT ![t] = SetTop(@, [Top(t) EXCEPT !.pc = "retry"])]
    /\ trace' = [trace EXCEPT ![t] =
                    Append(@, Event("setflag", Depth(t), client.id, "none", <<>>, EmptyMapping))]
    /\ UNCHANGED <<ctor, client, nextId, result, log, ncalls, ext, history>>

\* Line 69: the recursive self.query(query_string=..., query_parameters=...).
Retry(t) ==
    /\ stack[t] # <<>>
    /\ Top(t).pc = "retry"
    /\ Depth(t) < MaxDepth
    /\ LET f == Top(t) IN
          /\ stack' = [stack EXCEPT ![t] =
                          Append(SetTop(@, [f EXCEPT !.pc = "wait"]), Frame(f.qs, f.qp))]
          /\ trace' = [trace EXCEPT ![t] =
                          Append(@, Event("call", Depth(t) + 1, client.id, "none",
                                          <<f.qs, f.qp>>, EmptyMapping))]
    /\ UNCHANGED <<ctor, reauthenticated, client, nextId, result, log, ncalls, ext, history>>

\* Lines 53 and 86: what a frame that does not raise hands to its caller.
ReturnValue(f) == IF f.pending = "return" THEN f.resp ELSE EmptyMapping

Completion(f) ==
    IF f.pending = "raise"
    THEN [status |-> "raised", value |-> EmptyMapping, exc |-> f.exc]
    ELSE [status |-> "returned", value |-> ReturnValue(f), exc |-> "none"]

\* Resume with the callee's exception dropped like its value.
ResumeSwallow(caller, c) ==
    [caller EXCEPT !.pc = "finally", !.pending = "fall", !.exc = "none"]

\* Resume handing the callee's value on, as `return self.query(...)` would.
ResumeReturning(caller, c) ==
    IF c.status = "raised"
    THEN [caller EXCEPT !.pc = "finally", !.pending = "raise", !.exc = c.exc]
    ELSE [caller EXCEPT !.pc = "finally", !.pending = "return", !.resp = c.value,
                        !.exc = "none"]

\* Line 69 seen from the caller: the callee's value is dropped and control falls
\* out of the handler; an exception of the callee leaves the handler unhandled.
Resume(caller, c) ==
    IF c.status = "raised"
    THEN [caller EXCEPT !.pc = "finally", !.pending = "raise", !.exc = c.exc]
    ELSE [caller EXCEPT !.pc = "finally", !.pending = "fall", !.exc = "none"]

\* What is kept of a finished top-level call: whether its first attempt met a
\* transport-protocol error, whether a token was asked for and obtained, whether the
\* query was retried, and whether the call raised.
Summary(tr, c) ==
    [protocol |-> \E i \in DOMAIN tr :
                     tr[i].ev = "attempt" /\ tr[i].depth = 1
                         /\ tr[i].kind = TransportProtocolError,
     fetched |-> \E i \in DOMAIN tr : tr[i].ev = "token",
     tokenOk |-> \E i \in DOMAIN tr : tr[i].ev = "token" /\ tr[i].kind = "ok",
     retried |-> \E i \in DOMAIN tr : tr[i].ev = "call" /\ tr[i].depth > 1,
     raised |-> c.status = "raised"]

\* The finally block with line 85 forgotten: the flag keeps its value.
FinallyFlagKept == reauthenticated

\* Line 85: the value the finally block gives self._reauthenticated.
FinallyFlag == FALSE

\* Lines 84-86: the finally block, then the frame returns or raises.
Finally(t) ==
    /\ stack[t] # <<>>
    /\ Top(t).pc = "finally"
    /\ reauthenticated' = FinallyFlag
    /\ LET f == Top(t)
           c == Completion(f)
           rest == Pop(stack[t])
           exit == Event("exit", Depth(t), client.id,
                         IF c.status = "raised" THEN c.exc ELSE "returned",
                         <<f.qs, f.qp>>, c.value)
       IN \* A thread inside query() while another thread's finally block turns
          \* the flag from true to false has that noted in its history.
          /\ trace' = [u \in Threads |->
                          IF u = t THEN Append(trace[u], exit)
                          ELSE IF stack[u] # <<>> /\ reauthenticated
                          THEN Append(trace[u], Event("cleared", Depth(u), client.id,
                                                      "none", <<>>, EmptyMapping))
                          ELSE trace[u]]
          /\ IF rest = <<>>
             THEN /\ stack' = [stack EXCEPT ![t] = <<>>]
                  /\ result' = [result EXCEPT ![t] = c]
                  /\ history' = Append(history, Summary(trace[t], c))
             ELSE /\ stack' = [stack EXCEPT ![t] = SetTop(rest, Resume(rest[Len(rest)], c))]
                  /\ UNCHANGED <<result, history>>
    /\ UNCHANGED <<ctor, client, nextId, log, ncalls, ext>>

\* One step of thread t inside query().
Step(t) ==
    \/ Attempt(t)
    \/ HandleGraphQLError(t)
    \/ HandleProtocolError(t)
    \/ HandleQueryError(t)
    \/ HandleClosed(t)
    \/ HandleServerError(t)
    \/ HandleUnknown(t)
    \/ Reinitialize(t)
    \/ SetFlag(t)
    \/ Retry(t)
    \/ Finally(t)

\* Single-threaded use: only Main constructs and calls the client.
Next ==
    \/ Construct
    \/ StartQuery(Main)
    \/ Step(Main)

Spec == Init /\ [][Next]_vars

\* A call, once made, runs to completion: the calling thread keeps executing.
FairSpec == Spec /\ WF_vars(Step(Main))

\* Unserialized use: two threads call query() once each on the same client, their
\* steps interleaved in any order.  To keep the interleavings enumerable the
\* calls carry one query text and parameter set, get_access_token() yields one
\* token value, and a successful attempt is answered with one response; every
\* error of ExecuteErrors remains possible at every attempt.
ConcEnv ==
    /\ client = NoClient \/ client.headers[3] = "tokA"
    /\ \A t \in Threads : \A i \in DOMAIN trace[t] :
          /\ trace[t][i].ev = "call" => trace[t][i].query = <<"query { ok }", "p1">>
          /\ (trace[t][i].ev = "attempt" /\ trace[t][i].kind = "ok") =>
                trace[t][i].resp = {<<"data", 1>>}

\* The one call a thread makes.
FirstQuery(t) == result[t] = NoResult /\ StartQuery(t)

ConcNext ==
    \/ Construct /\ ConcEnv'
    \/ \E t \in Threads : FirstQuery(t) /\ ConcEnv'
    \/ \E t \in Threads : Step(t) /\ ConcEnv'

ConcSpec == Init /\ [][ConcNext]_vars

\* ------------------------------------------------------ response extractors
\* Api._return_latest_mission_report_id and Api._get_inspection_uri_for_poi
\* (isar_exr.api.energy_robotics_api), exercised by tests/api/test_report.py.

\* The values tests/api/test_report.py fixes.
ExpectedLatestId == "606dd56c023c8866b43f7f7e"
PoiName == "beds_1"
ExpectedUri == "https://actual.png"

ReportIds ==
    {ExpectedLatestId, "606dd4f8023c8866b43f7f7a", "606dd3a1023c8866b43f7f70",
     "606dd2c7023c8866b43f7f6b"}
PoiNames == {PoiName, "beds_2", "pump_3"}
Uris == {ExpectedUri, "https://other.png"}

SeqsUpTo(S, n) == UNION {[1..k -> S] : k \in 1..n}
Report == [id : ReportIds, time : 1..MaxTime]
Poi == [name : PoiNames, uri : Uris]
\* A response lists each report once.
ReportLists ==
    {rs \in SeqsUpTo(Report, MaxReports) :
        \A i, j \in DOMAIN rs : rs[i].id = rs[j].id => i = j}
PoiLists == SeqsUpTo(Poi, MaxPois)

\* The reports ordered from the most recent to the oldest (an insertion sort
\* that keeps reports of equal time in their order of arrival).
RECURSIVE InsertByTime(_, _)
InsertByTime(r, sorted) ==
    IF sorted = <<>> THEN <<r>>
    ELSE IF r.time > Head(sorted).time THEN <<r>> \o sorted
    ELSE <<Head(sorted)>> \o InsertByTime(r, Tail(sorted))

RECURSIVE SortedByTime(_)
SortedByTime(rs) ==
    IF rs = <<>> THEN <<>>
    ELSE InsertByTime(rs[Len(rs)], SortedByTime(SubSeq(rs, 1, Len(rs) - 1)))

\* The extractor taking the first report of the response as it came.
FirstReportId(rs) == rs[1].id

\* Extract-latest-report-id: the identifier of the most recent report.
ReturnLatestMissionReportId(rs) == SortedByTime(rs)[1].id

\* The extractor taking the picture of the first point of interest.
FirstPoiUri(ps, name) == ps[1].uri

\* Extract-inspection-uri-for-poi: the picture URI of the point of interest
\* with the requested name; "" stands for no such point of interest.
RECURSIVE GetInspectionUriForPoi(_, _)
GetInspectionUriForPoi(ps, name) ==
    IF ps = <<>> THEN ""
    ELSE IF Head(ps).name = name THEN Head(ps).uri
    ELSE GetInspectionUriForPoi(Tail(ps), name)

ReportInit ==
    /\ ClientInit
    /\ \E rs \in ReportLists : ext = [NoExtractor EXCEPT !.fn = "latest", !.reports = rs]

ExtractLatest ==
    /\ ext.fn = "latest"
    /\ ~ext.done
    /\ ext' = [ext EXCEPT !.out = ReturnLatestMissionReportId(ext.reports), !.done = TRUE]
    /\ UNCHANGED <<ctor, reauthenticated, client, nextId, stack, result, log, trace, ncalls, history>>

ReportNext == ExtractLatest
ReportSpec == ReportInit /\ [][ReportNext]_vars

PoiInit ==
    /\ ClientInit
    /\ \E ps \in PoiLists, n \in PoiNames :
          ext = [NoExtractor EXCEPT !.fn = "poi", !.pois = ps, !.name = n]

ExtractUri ==
    /\ ext.fn = "poi"
    /\ ~ext.done
    /\ ext' = [ext EXCEPT !.out = GetInspectionUriForPoi(ext.pois, ext.name), !.done = TRUE]
    /\ UNCHANGED <<ctor, reauthenticated, client, nextId, stack, result, log, trace, ncalls, history>>

PoiNext == ExtractUri
PoiSpec == PoiInit /\ [][PoiNext]_vars

\* ------------------------------------------------- reading a call's history
Tr == trace[Main]
Idx(e) == {i \in DOMAIN Tr : Tr[i].ev = e}
IdxAt(e, d) == {i \in DOMAIN Tr : Tr[i].ev = e /\ Tr[i].depth = d}
Count(e) == Cardinality(Idx(e))
FirstFailedWith(k) == \E i \in IdxAt("attempt", 1) : Tr[i].kind = k
RetryFailedWith(k) == \E i \in IdxAt("attempt", 2) : Tr[i].kind = k
Retries == Cardinality({i \in Idx("call") : Tr[i].depth > 1})
TokenFetches == Count("token")
Rebuilds == Count("rebuild")
TokenFailed == \E i \in Idx("token") : Tr[i].kind = "fail"
\* A top-level query call of Main has returned or raised.
QueryDone == ctor = "ok" /\ stack[Main] = <<>> /\ result[Main].status # "none"
QueryActive == stack[Main] # <<>>

\* C1 (as stated): a first-attempt transport-protocol error makes the call perform
\* exactly one session rebuild and exactly one retry.
C1_Original ==
    (QueryDone /\ FirstFailedWith(TransportProtocolError))
        => (Rebuilds = 1 /\ Retries = 1)

\* C1 (amended): within one call there is never more than one token fetch, one
\* session rebuild and one retry, also when the retry fails with a protocol error
\* again; a finished call whose first attempt failed with a protocol error made
\* exactly one token fetch, and exactly one rebuild and one retry when that fetch
\* succeeded, none of either when it failed.
C1_OneRebuildOneRetry ==
    /\ QueryActive \/ QueryDone => (TokenFetches <= 1 /\ Rebuilds <= 1 /\ Retries <= 1)
    /\ (QueryDone /\ FirstFailedWith(TransportProtocolError)) =>
          /\ TokenFetches = 1
          /\ IF TokenFailed THEN Rebuilds = 0 /\ Retries = 0
                            ELSE Rebuilds = 1 /\ Retries = 1
    /\ (QueryDone /\ ~FirstFailedWith(TransportProtocolError)) =>
          (TokenFetches = 0 /\ Rebuilds = 0 /\ Retries = 0)

\* The retry failed with a second protocol error and the call is over.
C1_Witness ==
    /\ QueryDone
    /\ FirstFailedWith(TransportProtocolError)
    /\ RetryFailedWith(TransportProtocolError)
    /\ Rebuilds = 1

\* C2: after any query call, the outer one or the recursive one, has returned or
\* raised, self._reauthenticated is false.
LastEvent == Tr[Len(Tr)]
C2_FlagFalseAfterQuery ==
    /\ (Tr # <<>> /\ LastEvent.ev = "exit") => ~reauthenticated
    /\ QueryDone => ~reauthenticated

\* The retry, entered with the flag set, has just raised a second protocol error.
C2_Witness ==
    /\ QueryActive
    /\ LastEvent.ev = "exit"
    /\ LastEvent.depth = 2
    /\ LastEvent.kind = TransportProtocolError
    /\ Count("setflag") = 1

\* C3: a query call whose execution attempt fails with anything but a
\* transport-protocol error re-raises that error, fetches no token, rebuilds no
\* session, makes no retry and leaves self.client the object it was on entry.
OtherErrors == ExecuteErrors \ {TransportProtocolError}
C3_OtherErrorsNoRetry ==
    \A i \in Idx("attempt") :
        Tr[i].kind \in OtherErrors =>
            LET d == Tr[i].depth IN
            /\ IdxAt("token", d) = {}
            /\ IdxAt("rebuild", d) = {}
            /\ IdxAt("setflag", d) = {}
            /\ IdxAt("call", d + 1) = {}
            /\ \A c \in IdxAt("call", d) : Tr[c].session = Tr[i].session
            /\ \A x \in IdxAt("exit", d) :
                  /\ Tr[x].kind = Tr[i].kind
                  /\ \A c \in IdxAt("call", d) : Tr[x].session = Tr[c].session
            /\ (d = 1 /\ QueryDone) =>
                  /\ result[Main].status = "raised"
                  /\ result[Main].exc = Tr[i].kind
                  /\ \A c \in IdxAt("call", 1) : client.id = Tr[c].session

\* A call whose first attempt found the transport closed has raised.
C3_Witness ==
    /\ QueryDone
    /\ FirstFailedWith(TransportClosed)
    /\ result[Main].exc = TransportClosed

\* C4: the error of a failed retry is raised to the original caller, and query
\* never returns normally when its last execution attempt failed.
LastAttempt == Tr[CHOOSE i \in Idx("attempt") : \A j \in Idx("attempt") : j <= i]
C4_RetryErrorRaised ==
    QueryDone =>
        /\ LastAttempt.kind # "ok" => result[Main].status = "raised"
        /\ \A k \in ExecuteErrors :
              RetryFailedWith(k) =>
                  (result[Main].status = "raised" /\ result[Main].exc = k)

\* The retry failed with a server-reported query error, which reached the caller.
C4_Witness ==
    /\ QueryDone
    /\ RetryFailedWith(TransportQueryError)
    /\ result[Main].exc = TransportQueryError

\* C5 (as stated): whenever query returns without raising, it returns the
\* response dictionary the API gave to the successful execute.
C5_ReturnsApiResponse ==
    (QueryDone /\ result[Main].status = "returned") =>
        (LastAttempt.kind = "ok" /\ result[Main].value = LastAttempt.resp)

\* C6: when get_access_token() raises during construction, construction raises
\* that exception, no session is created and the token is asked for only once.
C6_ConstructionFails ==
    ctor = "failed" =>
        /\ client = NoClient
        /\ nextId = 0
        /\ result[Main].status = "raised"
        /\ result[Main].exc = TokenError
        /\ TokenFetches = 1
        /\ Rebuilds = 0
        /\ \A t \in Threads : stack[t] = <<>>

C6_Witness == ctor = "failed" /\ TokenFailed

\* C7: every error that construction or query raises to its caller was given
\* to the logger first, at error or critical level, by the clause for its kind.
MessageFor(exc) ==
    CASE exc = TokenError -> "CRITICAL - Error getting access token"
      [] exc = GraphQLError -> "Something went wrong while sending the GraphQL query"
      [] exc = TransportProtocolError ->
            "Transport protocol error - Error in configuration of GraphQL client"
      [] exc = TransportQueryError -> "The Energy Robotics server returned an error"
      [] exc = TransportClosed -> "The connection to the GraphQL endpoint is closed"
      [] exc = TransportServerError -> "Error in Energy Robotics server"
      [] OTHER -> "Unknown error in GraphQL client"
C7_LoggedBeforeRaised ==
    result[Main].status = "raised" =>
        \E i \in DOMAIN log[Main] :
            /\ log[Main][i].level \in {"error", "critical"}
            /\ log[Main][i].level = "critical" <=> result[Main].exc = TokenError
            /\ log[Main][i].msg = MessageFor(result[Main].exc)

\* An unknown exception of the retry has reached the caller, logged.
C7_Witness ==
    /\ QueryDone
    /\ RetryFailedWith(UnknownException)
    /\ result[Main].exc = UnknownException
    /\ log[Main] # <<>>

\* C8: every query call ends, also when every attempt meets a protocol error,
\* after at most two execution attempts and at most one token fetch.
C8_Terminates ==
    /\ [](QueryActive => (Count("attempt") <= 2 /\ TokenFetches <= 1))
    /\ [](QueryDone => (Count("attempt") <= 2 /\ TokenFetches <= 1))
    /\ QueryActive ~> QueryDone

\* Both attempts of a finished call were answered with a protocol error.
C8_Witness ==
    /\ QueryDone
    /\ Count("attempt") = 2
    /\ \A i \in Idx("attempt") : Tr[i].kind = TransportProtocolError
    /\ TokenFetches = 1

\* C9: for every non-empty collection of report summaries, the extractor returns
\* the identifier of the report with the most recent timestamp.
C9_LatestReportId ==
    (ext.fn = "latest" /\ ext.done) =>
        \E i \in DOMAIN ext.reports :
            /\ ext.reports[i].id = ext.out
            /\ \A j \in DOMAIN ext.reports : ext.reports[j].time <= ext.reports[i].time

\* The most recent of several reports is not the first listed and carries the
\* identifier the test expects.
C9_Witness ==
    /\ ext.fn = "latest"
    /\ ext.done
    /\ Len(ext.reports) = MaxReports
    /\ ext.out = ExpectedLatestId
    /\ ext.reports[1].id # ExpectedLatestId

\* C10: when a point of interest of the response has the requested name, the
\* extractor returns the picture URI of a point of interest with that name.
C10_InspectionUriForPoi ==
    (ext.fn = "poi" /\ ext.done /\ \E i \in DOMAIN ext.pois : ext.pois[i].name = ext.name) =>
        \E i \in DOMAIN ext.pois :
            /\ ext.pois[i].name = ext.name
            /\ ext.pois[i].uri = ext.out

\* "beds_1" is listed after a differently named point of interest with another
\* picture, and its own picture is returned.
C10_Witness ==
    /\ ext.fn = "poi"
    /\ ext.done
    /\ ext.name = PoiName
    /\ Len(ext.pois) >= 2
    /\ ext.pois[1].name # PoiName
    /\ ext.pois[1].uri # ExpectedUri
    /\ ext.out = ExpectedUri

RetryUnderWay ==
    /\ QueryActive
    /\ Count("setflag") = 1
    /\ \/ Depth(Main) = 1 /\ Top(Main).pc = "retry"
       \/ Depth(Main) = 2 /\ stack[Main][1].pc = "wait"
C12_FlagOnlyDuringRetry ==
    /\ reauthenticated => RetryUnderWay
    /\ ~QueryActive => ~reauthenticated
    /\ (QueryActive /\ Depth(Main) = 1 /\ Top(Main).pc # "retry") => ~reauthenticated

\* The retry is executing with the flag set.
C12_Witness ==
    /\ reauthenticated
    /\ Depth(Main) = 2
    /\ Top(Main).pc = "try"

\* C13: after a first-attempt protocol error the token is fetched and the session
\* replaced, then the flag is set, then the retry is issued; the retry runs the
\* same query text and parameters on the new session, never on the old one.
C13_RebuildFlagRetryOrder ==
    \A a \in IdxAt("attempt", 2) :
        \E tk \in IdxAt("token", 1), rb \in IdxAt("rebuild", 1),
           sf \in IdxAt("setflag", 1), rc \in IdxAt("call", 2),
           f \in IdxAt("attempt", 1) :
            /\ f < tk /\ tk < rb /\ rb < sf /\ sf < rc /\ rc < a
            /\ Tr[f].kind = TransportProtocolError
            /\ Tr[tk].kind = "ok"
            /\ Tr[a].query = Tr[f].query
            /\ Tr[rc].query = Tr[f].query
            /\ Tr[a].session = Tr[rb].session
            /\ Tr[a].session # Tr[f].session

\* The retry has executed on the session built after the protocol error.
C13_Witness ==
    /\ QueryActive
    /\ \E a \in IdxAt("attempt", 2), f \in IdxAt("attempt", 1) :
          /\ Tr[a].session = client.id
          /\ Tr[a].session = Tr[f].session + 1
          /\ Tr[a].query = Tr[f].query

\* C14: when the token fetch of the rebuild fails, query raises that failure,
\* makes no retry, keeps the session it had, never sets the flag in that call
\* and leaves it false.
C14_TokenFailureInRebuild ==
    ((QueryActive \/ QueryDone) /\ TokenFailed) =>
        /\ Retries = 0
        /\ Rebuilds = 0
        /\ Count("setflag") = 0
        /\ Count("attempt") = 1
        /\ ~reauthenticated
        /\ \A c \in IdxAt("call", 1) : client.id = Tr[c].session
        /\ QueryDone => (result[Main].status = "raised" /\ result[Main].exc = TokenError)

\* A call has ended with the token failure of its rebuild.
C14_Witness ==
    /\ QueryDone
    /\ FirstFailedWith(TransportProtocolError)
    /\ TokenFailed
    /\ result[Main].exc = TokenError

\* C15 (as stated): in any sequence of calls, every call whose first attempt fails
\* with a protocol error performs a session rebuild and one retry.
C15_Original ==
    \A i \in DOMAIN history :
        history[i].protocol => (history[i].tokenOk /\ history[i].retried)

\* C15 (amended): in any sequence of calls, whatever the earlier calls did, every
\* call whose first attempt fails with a protocol error asks for a token, and
\* rebuilds the session and retries once exactly when it obtains one; no other
\* call retries.
C15_RetryBudgetPerCall ==
    \A i \in DOMAIN history :
        /\ history[i].protocol =>
              (history[i].fetched /\ (history[i].tokenOk <=> history[i].retried))
        /\ ~history[i].protocol => (~history[i].fetched /\ ~history[i].retried)

\* A call that used its retry and failed is followed by a call that retries again.
C15_Witness ==
    /\ Len(history) = 2
    /\ history[1].protocol /\ history[1].retried /\ history[1].raised
    /\ history[2].protocol /\ history[2].retried

\* C16: sessions are built only at construction and inside calls whose first
\* attempt met a protocol error and whose token fetch succeeded; a call whose
\* first attempt succeeds fetches no token and leaves session and flag alone.
RebuildingCalls ==
    Cardinality({i \in DOMAIN history : history[i].protocol /\ history[i].tokenOk})
    + (IF QueryActive /\ FirstFailedWith(TransportProtocolError)
          /\ (\E i \in Idx("token") : Tr[i].kind = "ok")
       THEN 1 ELSE 0)
C16_SessionsBuilt ==
    /\ ctor = "new" => (nextId = 0 /\ client = NoClient)
    /\ ctor = "ok" => (nextId = 1 + RebuildingCalls /\ client.id = nextId)
    /\ (QueryDone /\ FirstFailedWith("ok")) =>
          /\ TokenFetches = 0
          /\ Rebuilds = 0
          /\ ~reauthenticated
          /\ \A c \in IdxAt("call", 1) : client.id = Tr[c].session

\* After a call that succeeded at once and one that rebuilt, two sessions exist.
C16_Witness ==
    /\ Len(history) = 2
    /\ ~history[1].protocol /\ ~history[1].raised
    /\ history[2].protocol /\ history[2].tokenOk
    /\ nextId = 2

\* C17: the one-rebuild-per-call guarantee needs serialized access.  With two
\* threads on one client, a call rebuilds the session or retries more than once
\* only as often as another call's finally block cleared the flag under it, and
\* an interleaving in which that happens is reachable.
CountIn(t, e) == Cardinality({i \in DOMAIN trace[t] : trace[t][i].ev = e})
RetriesIn(t) ==
    Cardinality({i \in DOMAIN trace[t] : trace[t][i].ev = "call" /\ trace[t][i].depth > 1})
C17_ExtraRebuildNeedsForeignCleanup ==
    \A t \in Threads :
        /\ CountIn(t, "rebuild") <= 1 + CountIn(t, "cleared")
        /\ RetriesIn(t) <= 1 + CountIn(t, "cleared")
        /\ CountIn(t, "setflag") <= 1 + CountIn(t, "cleared")

\* One query call has rebuilt the session twice and retried twice.
C17_Witness ==
    \E t \in Threads :
        /\ stack[t] # <<>>
        /\ trace[t][1].ev = "call"
        /\ CountIn(t, "rebuild") >= 2
        /\ RetriesIn(t) >= 2

====
